---- MODULE Spec2Model ----
(***************************************************************************)
(* A model of the stackalloc crate.                                        *)
(*                                                                         *)
(*  - alloca (src/lib.rs) and the layers built on it, run as a machine of  *)
(*    call frames over a downward-growing stack: specification Spec.       *)
(*  - AVec (src/avec.rs), the vector that starts in a borrowed buffer and  *)
(*    moves to the heap: specification SpecAVec.                           *)
(*  - The same frame machine with closures that write and read the bytes   *)
(*    of their buffers: specification SpecMem.                             *)
(*  - stackalloc_uninit's arithmetic over types, counts, base addresses    *)
(*    and builds: specification SpecAlign.                                 *)
(*  - The iterator-driven calls: specification SpecIter.                   *)
(*                                                                         *)
(* Values, payloads and addresses are integers.                            *)
(***************************************************************************)
EXTENDS Integers, Sequences, FiniteSets, TLC

\* ------------------------------------------------------------------ bounds
\* Largest byte count handed to alloca directly.
MaxSize == 2
\* Largest element count handed to stackalloc_with.
MaxCount == 2
\* Deepest nesting of alloca calls that are live at once.
MaxDepth == 2
\* Most calls one closure makes.
MaxNested == 1
\* Bytes of stack below the top-level caller; asking for more ends the process.
StackBytes == 5
\* Calls the driver of the memory scenarios makes.
MaxCalls == 2
\* tests.rs, with_alloca: the buffer size of the round-trip test.
SIZE == 128
\* Bits of a usize in the model of stackalloc_uninit's arithmetic.
UsizeBits == 8
\* Largest base address handed to stackalloc_uninit's closure there.
MaxBase == 7
\* Longest finite iterator given to the iterator-driven calls.
MaxIterLen == 3

\* ------------------------------------------------------------ value spaces
None == 0 - 1
RetVals == {100}
\* The value stackalloc clones, and T::default().
Seeds == {42}
DefaultValue == 0
Payloads == {201, 202}
\* Payload of the panic raised by a failed debug_assert!.
AssertPayload == 250

\* Element types T of the typed layer, as (size_of, align_of, needs_drop):
\* a byte, a droppable two-byte value, a droppable zero-sized type.
ByteTy == [size |-> 1, align |-> 1, needs_drop |-> FALSE]
DropTy == [size |-> 2, align |-> 2, needs_drop |-> TRUE]
ZstTy == [size |-> 0, align |-> 1, needs_drop |-> TRUE]
ElemTypes == {ByteTy, DropTy, ZstTy}

\* MaybeUninit<thread::Result<T>>
Uninit == [tag |-> "uninit", v |-> None]
Ok(v) == [tag |-> "Ok", v |-> v]
Err(p) == [tag |-> "Err", v |-> p]

VARIABLES
    stack,              \* the live alloca calls, outermost first
    sp,                 \* the stack pointer (an address; the stack grows down)
    proc,               \* "running", or "terminated" after a stack overflow
    debug_assertions,   \* whether the build checks debug_assert!
    obs,                \* what a caller sees at the instant a call gives control back
    mem,                \* the bytes of the stack, by address
    budget,             \* calls the driver may still make; None: any number
    al,                 \* one call of stackalloc_uninit, on its own
    it,                 \* one iterator-driven call, on its own
    \* AVec
    stack_sz,           \* AVec::stack_sz: the capacity of the backing store
    word0,              \* the first word of the union: stack.fill_ptr and heap._fill_ptr
    variant,            \* the union variant the program wrote last: "stack" | "heap"
    store,              \* the caller's backing store, slot by slot
    vec,                \* inner.heap.buf as the bytes of the union read: written or not
    needs_drop,         \* mem::needs_drop::<T>() of the element type
    status,             \* "live", "dropped", or "crashed" by a wild access
    pushed,             \* the items pushed so far, in order
    dtors,              \* per pushed item, how often it was destroyed
    junkDrops,          \* destructors run on values that were never pushed
    storeFreed          \* the borrowed store's memory was handed to the allocator

allocaVars == <<stack, sp, proc, debug_assertions, obs, mem, budget>>
avecVars == <<stack_sz, word0, variant, store, vec, needs_drop, status, pushed, dtors, junkDrops, storeFreed>>
pureVars == <<al, it>>
vars == <<stack, sp, proc, debug_assertions, obs, mem, budget, al, it,
          stack_sz, word0, variant, store, vec, needs_drop, status, pushed, dtors, junkDrops, storeFreed>>

\* ------------------------------------------------------------ helpers
\* helpers::align_buffer_to::<T>(ptr)
AlignBufferTo(ptr, align) == ptr + align - (ptr % align)

\* usize arithmetic wraps at 2^UsizeBits where overflow is not checked.
UsizeMod == 2 ^ UsizeBits

\* stackalloc_uninit: size_bytes
SizeBytes(ty, count) == (((ty.size * count) % UsizeMod) + ty.align) % UsizeMod

\* buf.as_ptr_range().contains(&abuf)
InPtrRange(ptr, len, a) == ptr <= a /\ a < ptr + len

Top == stack[Len(stack)]
SetTop(f) == [stack EXCEPT ![Len(stack)] = f]
Pop == SubSeq(stack, 1, Len(stack) - 1)

NoObs == [kind |-> "none", val |-> None, retSp |-> None, f |-> None]

\* The locals of one alloca call (lib.rs 150-186) and of the layer that made it.
\*   fn        "alloca" | "zeroed" (alloca_zeroed) |
\*             "with" (stackalloc_with over stackalloc_uninit)
\*   size      the byte count given to alloca
\*   body,arg  the user's closure: "len" returns buf.len(), "const" returns arg,
\*             "panic" panics with payload arg, "pattern" writes a pattern to
\*             every index and returns the sum of what it reads back,
\*             "patpanic" writes the pattern and panics with payload arg,
\*             "read" returns the sum of the bytes it finds
\*   callback  the ManuallyDrop slot: "held" | "taken"
\*   rval      the deferred result
\*   tbase     the stack pointer the trampoline saved on entry
\*   ptr       allocad_ptr
\*   slen      the length of the slice built by the callback
\*   pan       the payload unwinding through the closure
\*   res       what assume_init read
\*   count,ty  stackalloc_with: element count and type
\*   abuf      stackalloc_uninit: the aligned pointer
\*   inits     calls of init_with so far
\*   init,seed init_with: "fn" (a closure of the caller; here it numbers the
\*             slots), "clone" (|| seed.clone()), "default" (T::default)
\*   elems     the values in the slots built so far
\*   ctor,dtor per slot, how often it was constructed / destroyed
\*   cbst      stackalloc_with's callback: "no" | "running" | "returned"
\*   wrote     the closure has filled its buffer
\*   seen      the bytes the closure read back from its buffer
\* Kept for the properties only: callSp (sp at the call), afterPanic (the call
\* follows a call that panicked), thrown (the payload the closure panicked
\* with), retv (the value the closure returned), invoked / written / reads
\* (closure invocations, writes and reads of rval), nested (calls made by the
\* closure).
NewFrame(fn, size, body, arg, count, ty) ==
    [fn |-> fn, size |-> size, body |-> body, arg |-> arg, pc |-> "tramp",
     callback |-> "held", rval |-> Uninit, tbase |-> None, ptr |-> None,
     slen |-> None, pan |-> None, res |-> Uninit,
     count |-> count, ty |-> ty, abuf |-> None, inits |-> 0,
     ctor |-> [i \in 1..count |-> 0], dtor |-> [i \in 1..count |-> 0], cbst |-> "no",
     callSp |-> sp, afterPanic |-> (stack = <<>> /\ obs.kind = "panic"),
     thrown |-> None, retv |-> None, invoked |-> 0, written |-> 0, reads |-> 0,
     nested |-> 0, wrote |-> FALSE, seen |-> <<>>,
     init |-> "fn", seed |-> None, elems |-> <<>>]

\* A call can be made by the top-level caller or by the closure of an alloca call.
CanCall ==
    /\ proc = "running"
    /\ Len(stack) < MaxDepth
    /\ budget # 0
    /\ IF stack = <<>> THEN TRUE
       ELSE Top.fn = "alloca" /\ Top.pc = "user" /\ Top.nested < MaxNested

Enter(f) ==
    /\ stack' = Append(IF stack = <<>> THEN stack
                       ELSE SetTop([Top EXCEPT !.nested = @ + 1]), f)
    /\ obs' = NoObs
    /\ budget' = IF budget = None THEN None ELSE budget - 1
    /\ UNCHANGED <<sp, proc, debug_assertions, mem>>
    /\ UNCHANGED <<avecVars, pureVars>>

\* Every step but a return clears the observation.
Step(f) ==
    /\ stack' = SetTop(f)
    /\ obs' = NoObs
    /\ UNCHANGED <<proc, debug_assertions, mem, budget>>
    /\ UNCHANGED <<avecVars, pureVars>>

\* A step that writes stack memory.
Write(f, m) ==
    /\ stack' = SetTop(f)
    /\ mem' = m
    /\ obs' = NoObs
    /\ UNCHANGED <<sp, proc, debug_assertions, budget>>
    /\ UNCHANGED <<avecVars, pureVars>>

\* Memory m after the bytes from base on were set to vals[1], vals[2], ...
Fill(m, base, vals) ==
    [a \in DOMAIN m |-> IF base <= a /\ a < base + Len(vals) THEN vals[a - base + 1]
                        ELSE m[a]]

\* The len bytes from base.
Load(base, len) == [i \in 1..len |-> mem[base + i - 1]]

\* s[lo] + ... + s[hi]
RECURSIVE SumRange(_, _, _)
SumRange(s, lo, hi) ==
    IF lo > hi THEN 0
    ELSE IF lo = hi THEN s[lo]
    ELSE LET mid == (lo + hi) \div 2
         IN  SumRange(s, lo, mid) + SumRange(s, mid + 1, hi)
SumSeq(s) == SumRange(s, 1, Len(s))

\* Where the callback goes once it holds the slice and the closure.
AfterTake(f) ==
    CASE f.fn = "alloca" -> "user"
      [] f.fn = "zeroed" -> "zero"
      [] f.fn = "with"   -> "uninit"

At(pc) == proc = "running" /\ stack # <<>> /\ Top.pc = pc

\* ------------------------------------------------------------ alloca
\* alloca(size, callback): lib.rs 150-154
Alloca(size, body, arg) ==
    /\ CanCall
    /\ Enter(NewFrame("alloca", size, body, arg, 0, ByteTy))

\* alloca_zeroed(size, callback): lib.rs 227-231
AllocaZeroed(size, body, arg) ==
    /\ CanCall
    /\ Enter(NewFrame("zeroed", size, body, arg, 0, ByteTy))

\* stackalloc_with(count, init_with, callback) -> stackalloc_uninit -> alloca
StackallocWith(count, ty, body, arg) ==
    /\ CanCall
    /\ Enter(NewFrame("with", SizeBytes(ty, count), body, arg, count, ty))

\* stackalloc(size, init, callback): lib.rs 288-293
StackallocAsDefault(size, ty, init, body, arg) ==
    /\ CanCall
    /\ Enter([NewFrame("with", SizeBytes(ty, size), body, arg, size, ty)
                EXCEPT !.init = "default", !.seed = init])
Stackalloc(size, ty, init, body, arg) ==
    /\ CanCall
    /\ Enter([NewFrame("with", SizeBytes(ty, size), body, arg, size, ty)
                EXCEPT !.init = "clone", !.seed = init])

\* stackalloc_with_default(size, callback): lib.rs 301-306
StackallocWithDefault(size, ty, body, arg) ==
    /\ CanCall
    /\ Enter([NewFrame("with", SizeBytes(ty, size), body, arg, size, ty)
                EXCEPT !.init = "default"])

\* _alloca_trampoline: extend the stack by size and call cb(ptr, data).
TrampolineEnter ==
    /\ At("tramp")
    /\ sp - Top.size >= 0
    /\ sp' = sp - Top.size
    /\ Step([Top EXCEPT !.tbase = sp, !.ptr = sp - Top.size, !.pc = "cb"])

\* The request exceeds the stack that is left: the process ends.
StackOverflow ==
    /\ At("tramp")
    /\ sp - Top.size < 0
    /\ proc' = "terminated"
    /\ obs' = NoObs
    /\ UNCHANGED <<stack, sp, debug_assertions, mem, budget>>
    /\ UNCHANGED <<avecVars, pureVars>>

\* The closure handed to the trampoline, up to the user's closure being called:
\* the slice of `size` bytes and ManuallyDrop::take (lib.rs 156-160).
CallbackEnterTwice ==
    /\ At("cb")
    /\ UNCHANGED sp
    /\ Step([Top EXCEPT !.slen = Top.size, !.invoked = @ + 2,
                        !.pc = AfterTake(Top)])
CallbackEnterPadded ==
    /\ At("cb")
    /\ UNCHANGED sp
    /\ Step([Top EXCEPT !.slen = Top.tbase - Top.ptr + 1, !.callback = "taken",
                        !.invoked = @ + 1,
                        !.pc = AfterTake(Top)])
CallbackEnter ==
    /\ At("cb")
    /\ UNCHANGED sp
    /\ Step([Top EXCEPT !.slen = Top.size, !.callback = "taken", !.invoked = @ + 1,
                        !.pc = AfterTake(Top)])

\* alloca_zeroed's closure: write_bytes(buf, 0, buf.len()), then the user's
\* callback on the slice (lib.rs 232-236).
ZeroFillNothing ==
    /\ At("zero")
    /\ Write([Top EXCEPT !.pc = "user"], mem)
ZeroFillPadded ==
    /\ At("zero")
    /\ Write([Top EXCEPT !.pc = "user"],
             Fill(mem, Top.ptr, [i \in 1..(Top.slen + 1) |-> 0]))
ZeroFill ==
    /\ At("zero")
    /\ Write([Top EXCEPT !.pc = "user"],
             Fill(mem, Top.ptr, [i \in 1..Top.slen |-> 0]))

\* The byte the round-trip test writes at index i - 1: `i as u8`, shifted by
\* the closure's salt.
Pattern(i, salt) == (i + salt) % 256

\* The closure writes its pattern to every index of its slice (tests.rs 50-52).
UserFill ==
    /\ At("user")
    /\ Top.body \in {"pattern", "patpanic"}
    /\ ~Top.wrote
    /\ Write([Top EXCEPT !.wrote = TRUE],
             Fill(mem, Top.ptr, [i \in 1..Top.slen |-> Pattern(i, Top.arg)]))

\* The closure reads every index of its slice and returns the sum
\* (tests.rs 55).
UserReadBackReversed ==
    /\ At("user")
    /\ \/ Top.body = "pattern" /\ Top.wrote
       \/ Top.body = "read"
    /\ UNCHANGED sp
    /\ LET s == [i \in 1..Top.slen |-> mem[Top.ptr + Top.slen - i]]
       IN  Step([Top EXCEPT !.seen = s, !.retv = SumSeq(s), !.pc = "ret"])
UserReadBack ==
    /\ At("user")
    /\ \/ Top.body = "pattern" /\ Top.wrote
       \/ Top.body = "read"
    /\ UNCHANGED sp
    /\ LET s == Load(Top.ptr, Top.slen)
       IN  Step([Top EXCEPT !.seen = s, !.retv = SumSeq(s), !.pc = "ret"])

\* The user's closure returns: buf.len(), or its constant.
UserReturn ==
    /\ At("user")
    /\ Top.body \in {"len", "const"}
    /\ UNCHANGED sp
    /\ LET v == IF Top.body = "len" THEN Top.slen ELSE Top.arg
       IN  Step([Top EXCEPT !.retv = v,
                            !.cbst = IF Top.fn = "with" THEN "returned" ELSE @,
                            !.pc = IF Top.fn = "with" THEN "drop" ELSE "ret"])

\* The user's closure panics.
UserPanicDropGuard ==
    /\ At("user")
    /\ \/ Top.body = "panic"
       \/ Top.body = "patpanic" /\ Top.wrote
    /\ UNCHANGED sp
    /\ Step([Top EXCEPT !.pan = Top.arg, !.thrown = Top.arg, !.pc = "unwinding",
                        !.dtor = IF Top.ty.needs_drop
                                 THEN [i \in 1..Top.count |-> Top.dtor[i] + 1]
                                 ELSE @])
UserPanic ==
    /\ At("user")
    /\ \/ Top.body = "panic"
       \/ Top.body = "patpanic" /\ Top.wrote
    /\ UNCHANGED sp
    /\ Step([Top EXCEPT !.pan = Top.arg, !.thrown = Top.arg, !.pc = "unwinding"])

\* rval = MaybeUninit::new(panic::catch_unwind(...)): lib.rs 160
CallbackStoreSwallow ==
    /\ proc = "running" /\ stack # <<>> /\ Top.pc \in {"ret", "unwinding"}
    /\ UNCHANGED sp
    /\ Step([Top EXCEPT !.rval = IF Top.pc = "ret" THEN Ok(Top.retv) ELSE Ok(None),
                        !.written = @ + 1, !.pc = "cb_done"])
CallbackStoreNoCatch ==
    /\ proc = "running" /\ stack # <<>> /\ Top.pc \in {"ret", "unwinding"}
    /\ IF Top.pc = "ret"
       THEN /\ UNCHANGED sp
            /\ Step([Top EXCEPT !.rval = Ok(Top.retv), !.written = @ + 1,
                                !.pc = "cb_done"])
       ELSE \* the unwind leaves through the trampoline's frame, which never
            \* runs its epilogue
            /\ obs' = [kind |-> "panic", val |-> Top.pan, retSp |-> sp, f |-> Top]
            /\ stack' = IF Len(stack) = 1 THEN <<>>
                        ELSE Append(SubSeq(stack, 1, Len(stack) - 2),
                                    [stack[Len(stack) - 1] EXCEPT
                                        !.pan = Top.pan, !.thrown = Top.pan,
                                        !.pc = "unwinding"])
            /\ UNCHANGED <<sp, proc, debug_assertions, mem, budget>>
            /\ UNCHANGED <<avecVars, pureVars>>
CallbackStore ==
    /\ proc = "running" /\ stack # <<>> /\ Top.pc \in {"ret", "unwinding"}
    /\ UNCHANGED sp
    /\ Step([Top EXCEPT !.rval = IF Top.pc = "ret" THEN Ok(Top.retv) ELSE Err(Top.pan),
                        !.written = @ + 1, !.pc = "cb_done"])

\* _alloca_trampoline returns: its frame, and the region in it, is popped.
TrampolineReturn ==
    /\ At("cb_done")
    /\ sp' = Top.tbase
    /\ Step([Top EXCEPT !.pc = "tramp_done"])

\* rval.assume_init(): lib.rs 178.  Reading a slot nobody wrote is undefined:
\* any result may come out.
AssumeInit ==
    /\ At("tramp_done")
    /\ UNCHANGED sp
    /\ \E r \in IF Top.rval.tag = "uninit"
                THEN {Ok(v) : v \in RetVals} \cup {Err(p) : p \in Payloads}
                ELSE {Top.rval} :
          Step([Top EXCEPT !.res = r, !.reads = @ + 1, !.pc = "match"])

\* Ok(v) => v: lib.rs 183
AllocaReturn ==
    /\ At("match")
    /\ Top.res.tag = "Ok"
    /\ obs' = [kind |-> "ok", val |-> Top.res.v, retSp |-> sp, f |-> Top]
    /\ stack' = Pop
    /\ UNCHANGED <<sp, proc, debug_assertions, mem, budget>>
    /\ UNCHANGED <<avecVars, pureVars>>

\* Err(pan) => panic::resume_unwind(pan): lib.rs 184.  The panic unwinds into
\* the caller; a caller that is itself a closure of alloca is unwound by it.
AllocaResumeGeneric ==
    /\ At("match")
    /\ Top.res.tag = "Err"
    /\ obs' = [kind |-> "panic", val |-> 299, retSp |-> sp, f |-> Top]
    /\ stack' = IF Len(stack) = 1 THEN <<>>
                ELSE Append(SubSeq(stack, 1, Len(stack) - 2),
                            [stack[Len(stack) - 1] EXCEPT
                                !.pan = 299, !.thrown = 299,
                                !.pc = "unwinding"])
    /\ UNCHANGED <<sp, proc, debug_assertions, mem, budget>>
    /\ UNCHANGED <<avecVars, pureVars>>
AllocaResume ==
    /\ At("match")
    /\ Top.res.tag = "Err"
    /\ obs' = [kind |-> "panic", val |-> Top.res.v, retSp |-> sp, f |-> Top]
    /\ stack' = IF Len(stack) = 1 THEN <<>>
                ELSE Append(SubSeq(stack, 1, Len(stack) - 2),
                            [stack[Len(stack) - 1] EXCEPT
                                !.pan = Top.res.v, !.thrown = Top.res.v,
                                !.pc = "unwinding"])
    /\ UNCHANGED <<sp, proc, debug_assertions, mem, budget>>
    /\ UNCHANGED <<avecVars, pureVars>>

\* ------------------------------------------------------------ typed layer
\* The closure of stackalloc_uninit: lib.rs 249-253.  The debug assertion
\* panics in a build that checks it.
UninitEnter ==
    /\ At("uninit")
    /\ UNCHANGED sp
    /\ LET a == AlignBufferTo(Top.ptr, Top.ty.align)
       IN  IF debug_assertions /\ ~InPtrRange(Top.ptr, Top.slen, a)
           THEN Step([Top EXCEPT !.abuf = a, !.pan = AssertPayload,
                                 !.thrown = AssertPayload, !.pc = "unwinding"])
           ELSE Step([Top EXCEPT !.abuf = a, !.pc = "fill"])

\* buf.fill_with(|| MaybeUninit::new(init_with())): one call of init_with,
\* which builds the next slot (lib.rs 268) ...
InitWith(f) ==
    CASE f.init = "fn"      -> f.inits + 1
      [] f.init = "clone"   -> f.seed
      [] f.init = "default" -> DefaultValue
SWInit ==
    /\ At("fill")
    /\ Top.inits < Top.count
    /\ UNCHANGED sp
    /\ Step([Top EXCEPT !.inits = @ + 1, !.ctor[Top.inits + 1] = @ + 1,
                        !.elems = Append(@, InitWith(Top))])

\* ... or panics.
SWInitPanic(p) ==
    /\ At("fill")
    /\ Top.inits < Top.count
    /\ UNCHANGED sp
    /\ Step([Top EXCEPT !.inits = @ + 1, !.pan = p, !.thrown = p, !.pc = "unwinding"])

\* let ret = callback(buf): lib.rs 270-271
SWCallback ==
    /\ At("fill")
    /\ Top.inits = Top.count
    /\ UNCHANGED sp
    /\ Step([Top EXCEPT !.cbst = "running", !.pc = "user"])

\* if needs_drop::<T>() { drop_in_place(buf) }; ret: lib.rs 272-279
SWDrop ==
    /\ At("drop")
    /\ UNCHANGED sp
    /\ Step([Top EXCEPT !.dtor = IF Top.ty.needs_drop
                                 THEN [i \in 1..Top.count |-> Top.dtor[i] + 1]
                                 ELSE @,
                        !.pc = "ret"])

\* ------------------------------------------------------------ stackalloc_uninit alone
\* One call stackalloc_uninit::<ty>(count, ..) whose byte buffer starts at base,
\* in a build with or without debug assertions and overflow checks.
WordTy == [size |-> 4, align |-> 4, needs_drop |-> FALSE]
AlignTypes == ElemTypes \cup {WordTy}
AlignCounts == (0..MaxCount) \cup {UsizeMod - 1, UsizeMod \div 2, UsizeMod \div 4}
AlIdle == [pc |-> "idle", ty |-> ByteTy, count |-> 0, base |-> 0, debug |-> FALSE,
           size_bytes |-> None, abuf |-> None, tlen |-> None, outcome |-> "none"]
AlCall(ty, count, base, debug) ==
    [AlIdle EXCEPT !.pc = "call", !.ty = ty, !.count = count, !.base = base,
                   !.debug = debug]

\* let size_bytes = size_of::<T>() * size + align_of::<T>(): lib.rs 248.  A
\* build that checks overflow panics where the result does not fit a usize.
UninitSize ==
    /\ al.pc = "call"
    /\ al' = IF al.debug /\ (al.ty.size * al.count) + al.ty.align >= UsizeMod
             THEN [al EXCEPT !.outcome = "overflow_panic", !.pc = "done"]
             ELSE [al EXCEPT !.size_bytes = SizeBytes(al.ty, al.count), !.pc = "alloca"]
    /\ UNCHANGED <<it, allocaVars, avecVars>>

\* The closure given to alloca: lib.rs 249-253
UninitCallback ==
    /\ al.pc = "alloca"
    /\ LET a == AlignBufferTo(al.base, al.ty.align)
       IN  al' = IF al.debug /\ ~InPtrRange(al.base, al.size_bytes, a)
                 THEN [al EXCEPT !.abuf = a, !.outcome = "assert_panic", !.pc = "done"]
                 ELSE [al EXCEPT !.abuf = a, !.tlen = al.count,
                                 !.outcome = "callback", !.pc = "done"]
    /\ UNCHANGED <<it, allocaVars, avecVars>>

\* ------------------------------------------------------------ iterator-driven calls
\* An iterator: "from" yields start, start + 1, ... without end; "seq" yields
\* the items of a finite sequence.  pos items have been pulled.
IterFrom(start) == [kind |-> "from", start |-> start, items |-> <<>>, pos |-> 0]
IterSeq(items) == [kind |-> "seq", start |-> 0, items |-> items, pos |-> 0]
Range(a, b) == [i \in 1..(b - a) |-> a + i - 1]
Exhausted(src) == src.kind = "seq" /\ src.pos >= Len(src.items)
NextItem(src) == IF src.kind = "from" THEN src.start + src.pos
                 ELSE src.items[src.pos + 1]

ItIdle == [pc |-> "idle", exact |-> FALSE, count |-> 0, src |-> IterSeq(<<>>),
           buf |-> <<>>, passed |-> None, ret |-> None]

\* stackalloc_with_iter(count, iter, callback)
StackallocWithIter(count, src) ==
    [ItIdle EXCEPT !.pc = "fill", !.count = count, !.src = src]

\* stackalloc_from_iter_exact(iter, callback): the count is the length the
\* iterator declares.
StackallocFromIterExact(src) ==
    [ItIdle EXCEPT !.pc = "fill", !.exact = TRUE, !.count = Len(src.items), !.src = src]

\* One item is pulled into the next slot.
IterPull ==
    /\ it.pc = "fill"
    /\ Len(it.buf) < it.count
    /\ ~Exhausted(it.src)
    /\ it' = [it EXCEPT !.buf = Append(@, NextItem(it.src)), !.src.pos = @ + 1]
    /\ UNCHANGED <<al, allocaVars, avecVars>>

\* count items are there, or the iterator is exhausted: the callback gets the
\* filled slots; here it returns their sum.
IterCallbackRequested ==
    /\ it.pc = "fill"
    /\ Len(it.buf) = it.count \/ Exhausted(it.src)
    /\ LET whole == [i \in 1..it.count |-> IF i <= Len(it.buf) THEN it.buf[i] ELSE 0]
       IN  it' = [it EXCEPT !.passed = whole, !.ret = SumSeq(whole), !.pc = "done"]
    /\ UNCHANGED <<al, allocaVars, avecVars>>
IterCallback ==
    /\ it.pc = "fill"
    /\ Len(it.buf) = it.count \/ Exhausted(it.src)
    /\ it' = [it EXCEPT !.passed = it.buf, !.ret = SumSeq(it.buf), !.pc = "done"]
    /\ UNCHANGED <<al, allocaVars, avecVars>>

\* ------------------------------------------------------------ AVec
\* Bounds: largest backing store, pushes beyond the capacity, and the length
\* a vector read from unwritten bytes may claim to have.
MaxCap == 3
MaxExtra == 2
MaxGarbage == 1

Items == {7, 8}
Junk == [id |-> 0, val |-> 0]
GarbageVecs == UNION {[1..n -> {Junk}] : n \in 0..MaxGarbage}

\* AVec::fill_ptr: avec.rs 82-88
fill_ptr == word0

\* AVec::is_allocated: avec.rs 91-94
is_allocated == fill_ptr >= stack_sz

\* What reading inner.heap.buf can yield: the vector written there, or, over
\* bytes that hold the stack variant, anything.
HeapBufReads == IF vec.w THEN {vec.buf} ELSE GarbageVecs

\* AVec::len: avec.rs 149-159 (the values a call can return)
LenValues == IF is_allocated THEN {Len(b) : b \in HeapBufReads} ELSE {fill_ptr}

\* AVec::move_to_heap: avec.rs 113-124: the vector read out of the first n slots
MoveToHeap(st, n) == [i \in 1..n |-> st[i]]

AllocaIdle ==
    /\ stack = <<>> /\ sp = StackBytes /\ proc = "running"
    /\ debug_assertions = FALSE /\ obs = NoObs
    /\ mem = [a \in 0..(StackBytes - 1) |-> 0]
    /\ budget = None
    /\ al = AlIdle
    /\ it = ItIdle

\* AVec::new: avec.rs 97-111
New(cap) ==
    /\ stack_sz = cap
    /\ word0 = 0
    /\ variant = "stack"
    /\ store = [i \in 1..cap |-> Junk]
    /\ vec = [w |-> FALSE, buf |-> <<>>]
    /\ status = "live"
    /\ pushed = <<>>
    /\ dtors = <<>>
    /\ junkDrops = 0
    /\ storeFreed = FALSE

\* AVec::push: avec.rs 127-146
Push(item) ==
    /\ status = "live"
    /\ Len(pushed) < stack_sz + MaxExtra
    /\ pushed' = Append(pushed, item)
    /\ dtors' = Append(dtors, 0)
    /\ LET e == [id |-> Len(pushed) + 1, val |-> item]
       IN  IF is_allocated
           THEN \* (*self.inner.heap).buf.push(item)
                /\ UNCHANGED <<word0, variant, store>>
                /\ \/ \E b \in HeapBufReads :
                        /\ vec' = [w |-> TRUE, buf |-> Append(b, e)]
                        /\ status' = status
                   \/ /\ ~vec.w
                      /\ status' = "crashed"
                      /\ vec' = vec
           ELSE LET ptr == word0
                    st == [store EXCEPT ![ptr + 1] = e]
                    fp == ptr + 1
                IN  /\ store' = st
                    /\ status' = status
                    /\ IF fp >= stack_sz
                       THEN /\ vec' = [w |-> TRUE, buf |-> MoveToHeap(st, fp)]
                            /\ word0' = stack_sz
                            /\ variant' = "heap"
                       ELSE /\ word0' = fp
                            /\ UNCHANGED <<vec, variant>>
    /\ UNCHANGED <<stack_sz, needs_drop, junkDrops, storeFreed>>
    /\ UNCHANGED <<allocaVars, pureVars>>

\* The destructors run on the elements of b.
DropAll(b) == [i \in 1..Len(dtors) |->
                  dtors[i] + Cardinality({j \in 1..Len(b) : b[j].id = i})]
JunkIn(b) == Cardinality({j \in 1..Len(b) : b[j].id = 0})

\* impl Drop for AVec: avec.rs 55-77
Drop ==
    /\ status = "live"
    /\ IF is_allocated
       THEN \* ManuallyDrop::drop(&mut self.inner.heap)
            \/ \E b \in HeapBufReads :
                  /\ status' = "dropped"
                  /\ dtors' = IF needs_drop THEN DropAll(b) ELSE dtors
                  /\ junkDrops' = IF needs_drop THEN junkDrops + JunkIn(b) ELSE junkDrops
                  \* a vector that was never written may name the borrowed
                  \* store as the allocation it frees
                  /\ storeFreed' \in (IF variant = "heap" THEN {FALSE} ELSE BOOLEAN)
            \/ /\ variant = "stack"
               /\ status' = "crashed"
               /\ UNCHANGED <<dtors, junkDrops, storeFreed>>
       ELSE \* drop_in_place of the first fill_ptr slots
            /\ status' = "dropped"
            /\ dtors' = IF needs_drop
                        THEN DropAll([i \in 1..fill_ptr |-> store[i]])
                        ELSE dtors
            /\ UNCHANGED <<junkDrops, storeFreed>>
    /\ UNCHANGED <<stack_sz, word0, variant, store, vec, needs_drop, pushed>>
    /\ UNCHANGED <<allocaVars, pureVars>>

\* ------------------------------------------------------------ specifications
Init ==
    /\ stack = <<>>
    /\ sp = StackBytes
    /\ proc = "running"
    /\ debug_assertions \in BOOLEAN
    /\ obs = NoObs
    /\ mem = [a \in 0..(StackBytes - 1) |-> 0]
    /\ budget = None
    /\ al = AlIdle
    /\ it = ItIdle
    /\ needs_drop = TRUE
    /\ New(0)

Next ==
    \/ \E size \in 0..MaxSize :
          \/ Alloca(size, "len", None)
          \/ \E v \in RetVals : Alloca(size, "const", v)
          \/ \E p \in Payloads : Alloca(size, "panic", p)
    \/ \E count \in 0..MaxCount, ty \in ElemTypes :
          \/ \E v \in RetVals : StackallocWith(count, ty, "const", v)
          \/ StackallocWith(count, ty, "panic", 201)
          \/ \E init \in Seeds : Stackalloc(count, ty, init, "const", 100)
          \/ StackallocWithDefault(count, ty, "const", 100)
    \/ TrampolineEnter
    \/ StackOverflow
    \/ CallbackEnter
    \/ UserReturn
    \/ UserPanic
    \/ CallbackStore
    \/ TrampolineReturn
    \/ AssumeInit
    \/ AllocaReturn
    \/ AllocaResume
    \/ UninitEnter
    \/ SWInit
    \/ SWInitPanic(202)
    \/ SWCallback
    \/ SWDrop

Spec == Init /\ [][Next]_vars

InitAVec ==
    /\ AllocaIdle
    /\ needs_drop \in BOOLEAN
    /\ \E cap \in 0..MaxCap : New(cap)

NextAVec ==
    \/ \E item \in Items : Push(item)
    \/ Drop

SpecAVec == InitAVec /\ [][NextAVec]_vars

\* The memory scenarios: closures that write and read their buffers, on a stack
\* large enough for the test's buffer, over memory that starts as zeros or as
\* leftovers.
MemTop == SIZE + StackBytes
MemSizes == (0..MaxSize) \cup {SIZE}
Leftovers == {0, 170}

InitMem ==
    /\ stack = <<>>
    /\ sp = MemTop
    /\ proc = "running"
    /\ debug_assertions = FALSE
    /\ obs = NoObs
    /\ \E g \in Leftovers : mem = [a \in 0..(MemTop - 1) |-> g]
    /\ budget = MaxCalls
    /\ al = AlIdle
    /\ it = ItIdle
    /\ needs_drop = TRUE
    /\ New(0)

NextMem ==
    \/ \E size \in MemSizes :
          \/ Alloca(size, "pattern", 0)
          \/ Alloca(size, "patpanic", 201)
          \/ AllocaZeroed(size, "read", None)
    \/ TrampolineEnter
    \/ StackOverflow
    \/ CallbackEnter
    \/ ZeroFill
    \/ UserFill
    \/ UserReadBack
    \/ UserPanic
    \/ CallbackStore
    \/ TrampolineReturn
    \/ AssumeInit
    \/ AllocaReturn
    \/ AllocaResume

SpecMem == InitMem /\ [][NextMem]_vars

\* stackalloc_uninit for every type, count, base address and build.
InitAlign ==
    /\ stack = <<>> /\ sp = StackBytes /\ proc = "running"
    /\ debug_assertions = FALSE /\ obs = NoObs
    /\ mem = [a \in 0..(StackBytes - 1) |-> 0]
    /\ budget = None
    /\ it = ItIdle
    /\ needs_drop = TRUE
    /\ New(0)
    /\ \E ty \in AlignTypes, count \in AlignCounts, base \in 0..MaxBase, d \in BOOLEAN :
          al = AlCall(ty, count, base, d)

NextAlign ==
    \/ UninitSize
    \/ UninitCallback

SpecAlign == InitAlign /\ [][NextAlign]_vars

\* The iterator-driven calls of the tests, and small ones around them.
IterCounts == (0..MaxCount) \cup {10, 1024}
IterSources ==
    {IterFrom(0), IterFrom(10)}
        \cup {IterSeq(Range(0, n)) : n \in (0..MaxIterLen) \cup {100}}
        \cup {IterSeq(<<1, 2, 13, 24, 100>>)}

InitIter ==
    /\ stack = <<>> /\ sp = StackBytes /\ proc = "running"
    /\ debug_assertions = FALSE /\ obs = NoObs
    /\ mem = [a \in 0..(StackBytes - 1) |-> 0]
    /\ budget = None
    /\ al = AlIdle
    /\ needs_drop = TRUE
    /\ New(0)
    /\ \/ \E count \in IterCounts, src \in IterSources :
             it = StackallocWithIter(count, src)
       \/ \E src \in {x \in IterSources : x.kind = "seq"} :
             it = StackallocFromIterExact(src)

NextIter ==
    \/ IterPull
    \/ IterCallback

SpecIter == InitIter /\ [][NextIter]_vars

\* ------------------------------------------------------------ properties
Frames == {stack[i] : i \in 1..Len(stack)}
Returned == obs.kind # "none"

\* C1: when a call of alloca gives control back to its caller, by return or by
\* unwind, nested or not, the stack pointer is what it was at the call.
C1_Retracted == Returned => obs.retSp = obs.f.callSp
C1_Witness ==
    /\ obs.kind = "panic" /\ obs.f.size > 0
    /\ stack # <<>> /\ sp < StackBytes

\* C2: a panic of the closure is caught inside the callback and stored in the
\* deferred result; a caller observes it only from a call whose trampoline has
\* returned and whose region lies wholly above the stack pointer again.
C2_PanicDeferred ==
    /\ \A f \in Frames :
          (f.thrown # None /\ f.pc \in {"cb_done", "tramp_done", "match"})
              => f.rval = Err(f.thrown)
    /\ obs.kind = "panic" =>
          /\ obs.f.pc = "match"
          /\ obs.f.rval = Err(obs.val)
          /\ obs.f.res = obs.f.rval
          /\ obs.retSp >= obs.f.ptr + obs.f.size
C2_Witness ==
    /\ obs.kind = "panic" /\ obs.f.thrown \in Payloads
    /\ obs.f.size > 0 /\ obs.f.rval.tag = "Err"

\* C3: the caller of a panicking call sees the closure's own payload, and a
\* call made after it starts from the same stack pointer, runs its closure once
\* on a slice of the requested size and returns the closure's value.
C3_PayloadAndNextCall ==
    /\ obs.kind = "panic" => obs.val = obs.f.thrown
    /\ (Returned /\ obs.f.afterPanic) =>
          /\ obs.f.callSp = StackBytes
          /\ obs.f.invoked = 1
          /\ obs.f.slen = obs.f.size
          /\ (obs.f.thrown = None) => (obs.kind = "ok" /\ obs.val = obs.f.retv)
C3_Witness ==
    /\ obs.kind = "ok" /\ obs.f.afterPanic
    /\ obs.f.size > 0 /\ obs.f.body = "len" /\ obs.val = obs.f.size

\* C4: in a call that does not end the process the user's closure is invoked
\* exactly once: not before the callback runs, once from then on, and is taken
\* out of its slot by that invocation.
C4_InvokedOnce ==
    /\ \A f \in Frames :
          IF f.pc \in {"tramp", "cb"}
          THEN f.invoked = 0 /\ f.callback = "held"
          ELSE f.invoked = 1 /\ f.callback = "taken"
    /\ Returned => (obs.f.invoked = 1 /\ obs.f.callback = "taken")
C4_Witness ==
    /\ obs.kind = "ok" /\ obs.f.fn = "alloca" /\ obs.f.nested = 1
    /\ obs.f.invoked = 1

\* C10: the slice has exactly `size` bytes, so a closure returning buf.len()
\* makes alloca return size; a size of 0 still runs the closure, on an empty
\* slice, moves the stack pointer nowhere and never ends the process.
C10_SliceLen ==
    /\ \A f \in Frames :
          /\ f.slen # None => f.slen = f.size
          /\ (f.size = 0 /\ f.ptr # None) => (f.ptr = f.tbase /\ f.ptr = f.callSp)
          /\ (f.size = 0 /\ f.pc = "user") => sp = f.callSp \/ f.nested > 0
    /\ (obs.kind = "ok" /\ obs.f.fn = "alloca" /\ obs.f.body = "len")
          => obs.val = obs.f.size
    /\ (Returned /\ obs.f.size = 0) => (obs.f.invoked = 1 /\ obs.f.slen = 0)
    /\ proc = "terminated" => Top.size > 0
C10_Witness ==
    /\ obs.kind = "ok" /\ obs.f.fn = "alloca" /\ obs.f.body = "len"
    /\ obs.f.size = 0 /\ obs.val = 0

\* init_with panicked: a call of it that built nothing.
InitPanicked(f) == \E i \in 1..f.count : i <= f.inits /\ f.ctor[i] = 0

\* C9: stackalloc_with calls init_with exactly n times, all before callback
\* runs, and destroys each of the n elements once, after callback returned and
\* before it returns itself (element types with a destructor).
C9_InitThenDrop ==
    /\ \A f \in Frames :
          /\ f.cbst # "no" => (f.inits = f.count /\ \A i \in 1..f.count : f.ctor[i] = 1)
          /\ (\E i \in 1..f.count : f.dtor[i] > 0) => f.cbst = "returned"
    /\ (Returned /\ obs.f.fn = "with" /\ ~InitPanicked(obs.f)) =>
          /\ obs.f.inits = obs.f.count
          /\ \A i \in 1..obs.f.count : obs.f.ctor[i] = 1
    /\ (obs.kind = "ok" /\ obs.f.fn = "with" /\ obs.f.ty.needs_drop) =>
          \A i \in 1..obs.f.count : obs.f.dtor[i] = 1

\* The same, of the calls in which the callback was reached.
C9_WhenCallbackRuns ==
    /\ \A f \in Frames :
          /\ f.cbst # "no" => (f.inits = f.count /\ \A i \in 1..f.count : f.ctor[i] = 1)
          /\ (\E i \in 1..f.count : f.dtor[i] > 0) => f.cbst = "returned"
    /\ (obs.kind = "ok" /\ obs.f.fn = "with" /\ obs.f.ty.needs_drop) =>
          \A i \in 1..obs.f.count : obs.f.dtor[i] = 1
C9_Witness ==
    /\ obs.kind = "ok" /\ obs.f.fn = "with" /\ obs.f.ty.needs_drop
    /\ obs.f.count = 2 /\ obs.f.inits = 2

\* C11: the callback of alloca_zeroed(size, ..) is entered on a slice of exactly
\* size bytes that are all 0, whatever the memory held before, the bytes an
\* earlier call left there included.
C11_ZeroedAtEntry ==
    /\ \A f \in Frames :
          (f.fn = "zeroed" /\ f.pc = "user") =>
              /\ f.slen = f.size
              /\ \A a \in f.ptr..(f.ptr + f.size - 1) : mem[a] = 0
    /\ (obs.kind = "ok" /\ obs.f.fn = "zeroed") =>
          /\ obs.f.seen = [i \in 1..obs.f.size |-> 0]
          /\ obs.val = 0
C11_Witness ==
    /\ stack # <<>> /\ Top.fn = "zeroed" /\ Top.pc = "user"
    /\ Top.size = 1 /\ Top.ptr = MemTop - 1
    /\ mem[MemTop - 2] = Pattern(1, 0) /\ mem[MemTop - 1] = 0

\* The bytes a closure with the given salt writes to a slice of n bytes.
Written(n, salt) == [i \in 1..n |-> Pattern(i, salt)]

\* C15: a closure that writes a pattern to every index of its slice reads back
\* from every index the value it wrote there; for the 128 bytes 1..=128 of the
\* test the sum it returns is 8256.
C15_RoundTrip ==
    (obs.kind = "ok" /\ obs.f.body = "pattern") =>
        /\ obs.f.seen = Written(obs.f.size, obs.f.arg)
        /\ obs.val = SumSeq(Written(obs.f.size, obs.f.arg))
        /\ obs.f.size = SIZE => obs.val = (SIZE * (SIZE + 1)) \div 2
C15_Witness ==
    /\ obs.kind = "ok" /\ obs.f.body = "pattern"
    /\ obs.f.size = SIZE /\ Len(obs.f.seen) = 128 /\ obs.val = 8256

\* C18: the regions of alloca calls that are live together are disjoint, every
\* live region lies in allocated stack, and the bytes a closure wrote to its
\* buffer stay as written while an inner call runs, writes its own buffer and
\* returns or panics.
C18_NoAlias ==
    /\ \A i, j \in 1..Len(stack) :
          (i < j /\ stack[j].ptr # None) =>
              /\ stack[i].ptr # None
              /\ stack[j].ptr + stack[j].size <= stack[i].ptr
    /\ \A f \in Frames :
          (f.ptr # None /\ f.pc \notin {"tramp_done", "match"}) => sp <= f.ptr
    /\ \A f \in Frames :
          (f.wrote /\ f.pc \in {"user", "unwinding"}) =>
              Load(f.ptr, f.size) = Written(f.size, f.arg)
C18_Witness ==
    /\ stack # <<>> /\ Top.pc = "user" /\ Top.wrote /\ Top.size > 0
    /\ Returned /\ obs.f.wrote /\ obs.f.size > 0
    /\ obs.f.ptr + obs.f.size = Top.ptr

\* C12: stackalloc_uninit asks for size_of(T) * count + align_of(T) bytes and
\* gives the callback count elements that start at a multiple of align_of(T)
\* and lie wholly inside the bytes it got, for every T, count and base address.
C12_AlignedInside ==
    al.outcome = "callback" =>
        /\ al.size_bytes = (al.ty.size * al.count) + al.ty.align
        /\ al.tlen = al.count
        /\ al.abuf % al.ty.align = 0
        /\ al.base <= al.abuf
        /\ al.abuf + (al.ty.size * al.count) <= al.base + al.size_bytes

\* What C12 states holds where the byte count fits a usize.
C12_WhereItFits ==
    (al.ty.size * al.count) + al.ty.align < UsizeMod => C12_AlignedInside

\* C19: the aligned pointer lies in the half-open range of the byte buffer,
\* as stackalloc_uninit's debug assertion says, for every T, every count
\* (0 too) and every base address (aligned ones too).
C19_AssertionHolds ==
    /\ al.outcome # "assert_panic"
    /\ al.abuf # None => InPtrRange(al.base, al.size_bytes, al.abuf)

\* C13: stackalloc_with_iter passes the first min(count, items yielded) items
\* in order: count of them from an endless iterator (10 from 10.. sum to 145),
\* all of them from one that ends early (0..100 asked for 1024 gives 100); the
\* exact-length call passes as many as the sequence has.
C13_IterPrefix ==
    it.pc = "done" =>
        /\ \A i \in 1..Len(it.passed) :
              IF it.src.kind = "from" THEN it.passed[i] = it.src.start + i - 1
              ELSE i <= Len(it.src.items) /\ it.passed[i] = it.src.items[i]
        /\ it.src.kind = "from" => Len(it.passed) = it.count
        /\ it.src.kind = "seq" =>
              Len(it.passed) = (IF it.count < Len(it.src.items) THEN it.count
                                ELSE Len(it.src.items))
        /\ it.exact => Len(it.passed) = Len(it.src.items)
        /\ it.ret = SumSeq(it.passed)
        /\ (it.src = [IterFrom(10) EXCEPT !.pos = 10] /\ it.count = 10) => it.ret = 145
        /\ (it.src.items = Range(0, 100) /\ it.count = 1024) => Len(it.passed) = 100
C13_Witness ==
    /\ it.pc = "done" /\ ~it.exact /\ it.count = 1024
    /\ it.src.kind = "seq" /\ Len(it.src.items) = 100 /\ Len(it.passed) = 100

\* C14: stackalloc(size, init, callback) passes callback a slice of exactly
\* size elements that all equal init, for droppable and for plain types;
\* stackalloc_with_default does so with T::default().
C14_WhenCallbackRuns ==
    \A f \in Frames :
        (f.fn = "with" /\ f.init \in {"clone", "default"} /\ f.cbst = "running") =>
            /\ Len(f.elems) = f.count
            /\ \A i \in 1..f.count :
                  f.elems[i] = (IF f.init = "clone" THEN f.seed ELSE DefaultValue)
C14_ClonesOfInit ==
    /\ C14_WhenCallbackRuns
    /\ (Returned /\ obs.f.fn = "with" /\ obs.f.init \in {"clone", "default"}) =>
          /\ obs.f.cbst = "returned"
          /\ Len(obs.f.elems) = obs.f.count

\* C16: the deferred result rval is written exactly once, by the callback and
\* before the trampoline returns, and read exactly once, after it returned;
\* it is never read unwritten, whether the closure returned or panicked.
C16_WriteOnceReadOnce ==
    /\ \A f \in Frames :
          /\ f.pc \in {"tramp", "cb", "uninit", "fill", "zero", "user", "drop", "ret", "unwinding"}
                => (f.written = 0 /\ f.reads = 0 /\ f.rval = Uninit)
          /\ f.pc \in {"cb_done", "tramp_done"}
                => (f.written = 1 /\ f.reads = 0 /\ f.rval.tag # "uninit")
          /\ f.pc = "match"
                => (f.written = 1 /\ f.reads = 1 /\ f.rval.tag # "uninit" /\ f.res = f.rval)
    /\ Returned => (obs.f.written = 1 /\ obs.f.reads = 1 /\ obs.f.res = obs.f.rval
                      /\ obs.f.rval.tag = (IF obs.kind = "ok" THEN "Ok" ELSE "Err"))
C16_Witness ==
    /\ obs.kind = "panic" /\ obs.f.written = 1 /\ obs.f.reads = 1
    /\ obs.f.rval.tag = "Err" /\ stack # <<>>

\* C20: when callback, or init_with, panics inside stackalloc_with, the caller
\* gets the panic with the stack retracted and none of the elements built so
\* far is destroyed; elements are destroyed only after callback returned.
C20_NoDropOnPanic ==
    /\ \A f \in Frames :
          (\E i \in 1..f.count : f.dtor[i] > 0) => (f.cbst = "returned" /\ f.thrown = None)
    /\ (obs.kind = "panic" /\ obs.f.fn = "with") =>
          /\ \A i \in 1..obs.f.count : obs.f.dtor[i] = 0
          /\ obs.retSp = obs.f.callSp
          /\ obs.val = obs.f.thrown
C20_Witness ==
    /\ obs.kind = "panic" /\ obs.f.fn = "with" /\ obs.f.cbst = "running"
    /\ obs.f.ty.needs_drop /\ obs.f.count = 2
    /\ \A i \in 1..2 : obs.f.ctor[i] = 1 /\ obs.f.dtor[i] = 0

\* ---- AVec
Elems(p) == [i \in 1..Len(p) |-> [id |-> i, val |-> p[i]]]

\* C5: on a store of capacity C, after C+k pushes (k >= 1) len() is C+k and the
\* buffer holds the C+k items in order; is_allocated() is true from the push
\* of the C-th item on and not before.
C5_PushPastCapacity ==
    /\ Len(pushed) > stack_sz =>
          /\ status # "crashed"
          /\ status = "live" =>
                (LenValues = {Len(pushed)} /\ HeapBufReads = {Elems(pushed)})
    /\ status = "live" => (is_allocated <=> Len(pushed) >= stack_sz)

\* C6: with capacity 0 the buffer is not spilled before a push, the first push
\* moves it to a new heap array holding just that item, and len() is then 1.
C6_ZeroCapacity ==
    stack_sz = 0 =>
        /\ status # "crashed"
        /\ (status = "live" /\ pushed = <<>>) => ~is_allocated
        /\ (status = "live" /\ Len(pushed) = 1) =>
              (HeapBufReads = {Elems(pushed)} /\ LenValues = {1})

\* The representation after a push: Inline with the n items in the store, or
\* Spilled with all of them in the heap array.
C7_Rep ==
    IF is_allocated
    THEN HeapBufReads = {Elems(pushed)}
    ELSE /\ fill_ptr = Len(pushed)
         /\ \A i \in 1..Len(pushed) : store[i] = Elems(pushed)[i]

\* C7: Inline -> Spilled is one-way, and every push leaves the buffer wholly
\* in one representation.
C7_OneWayAtomic ==
    [][/\ is_allocated => is_allocated'
       /\ pushed' # pushed => (status' = "live" /\ C7_Rep')]_vars

\* C8: destroying the buffer destroys every pushed element exactly once,
\* destroys nothing else and does not free the borrowed store.
C8_DropOnce ==
    /\ status # "crashed"
    /\ status = "dropped" =>
          /\ needs_drop => \A i \in 1..Len(pushed) : dtors[i] = 1
          /\ junkDrops = 0
          /\ ~storeFreed

\* C17: for every capacity, in every state reached by pushes, is_allocated()
\* is true exactly when move_to_heap has written the heap variant, so while
\* the stack variant is live n < C and the heap variant is never read.
C17_DiscriminantAgrees ==
    status = "live" =>
        /\ is_allocated <=> variant = "heap"
        /\ is_allocated <=> vec.w
        /\ variant = "stack" => fill_ptr < stack_sz

\* The capacities the four statements above hold for.
AVecClaimsFromCapacityOne ==
    stack_sz >= 1 => (C5_PushPastCapacity /\ C8_DropOnce /\ C17_DiscriminantAgrees
                      /\ (status = "live" /\ pushed # <<>> => C7_Rep))

====
